---- MODULE Spec2Model ----
(***************************************************************************)
(* SPL stake pool account decoding (stake_pool/state.py).                  *)
(*                                                                         *)
(* The layouts of state.py are built from the `construct` combinators      *)
(* Int8ul, Int32ul, Int64ul, Bytes, Struct, Switch, Pass and Array.  The   *)
(* module models those combinators as data (a layout is a record) with a   *)
(* cursor-advancing parser over a byte sequence, then the classes that     *)
(* turn the parsed containers into StakePool / ValidatorList values.       *)
(*                                                                         *)
(* Python integers are unbounded; TLC integers are 32 bits wide.  A parsed *)
(* integer is therefore held as its base-65536 digits, least significant   *)
(* first, without trailing zero digits (0 is <<>>, 3 is <<3>>,             *)
(* 2^16 is <<0, 1>>).  Two parsed integers are equal exactly when their    *)
(* digit sequences are equal.                                              *)
(***************************************************************************)
EXTENDS Integers, Sequences, FiniteSets, TLC

VARIABLES data, kind, pc, result, prev, size

vars == <<data, kind, pc, result, prev, size>>

----------------------------------------------------------------------------
(* Python values produced by the parser and the decode classes.            *)

NoneVal == [t |-> "None"]

BytesVal(b) == [t |-> "bytes", v |-> b]

\* a construct Container: an ordered mapping, here the sequence of its
\* <<name, value>> items in insertion order
ContainerVal(items) == [t |-> "Container", items |-> items]

RECURSIVE Canon(_)
\* drops the most significant zero digits
Canon(d) ==
    IF d = <<>> THEN <<>>
    ELSE IF d[Len(d)] = 0 THEN Canon(SubSeq(d, 1, Len(d) - 1))
    ELSE d

\* the integer whose value is the small natural n (n < 65536)
Num(n) == Canon(<<n>>)

\* Python truthiness (`if container:`)
Truthy(x) ==
    CASE x.t = "None" -> FALSE
      [] x.t = "bytes" -> Len(x.v) > 0
      [] x.t = "Container" -> Len(x.items) > 0
      [] OTHER -> TRUE

\* container[name]: the value of the last item stored under name
Get(c, name) ==
    LET idx == {i \in 1..Len(c.items) : c.items[i][1] = name}
    IN c.items[CHOOSE i \in idx : \A j \in idx : j <= i][2]

----------------------------------------------------------------------------
(* construct combinators as layout descriptions.                           *)

Int8ul == [k |-> "Int", n |-> 1]

Int32ul == [k |-> "Int", n |-> 4]

Int64ul == [k |-> "Int", n |-> 8]

Bytes(n) == [k |-> "Bytes", n |-> n]

Pass == [k |-> "Pass"]

\* construct's Error: parsing it always raises
Error == [k |-> "Error"]

\* subcons: sequence of <<name, layout>> ("name" / layout)
Struct(subcons) == [k |-> "Struct", subcons |-> subcons]

\* Switch(lambda this: this.<key>, cases): the case is chosen by the value
\* of an earlier field of the enclosing Struct
Switch(key, cases) == [k |-> "Switch", key |-> key, cases |-> cases]

\* layout[n]: n repetitions
Array(n, sub) == [k |-> "Array", fixed |-> TRUE, count |-> n, sub |-> sub]

\* layout[lambda this: this.<key>]: repetitions counted by an earlier field
ArrayThis(key, sub) == [k |-> "Array", fixed |-> FALSE, count |-> key, sub |-> sub]

\* little-endian unsigned integer of a byte sequence of even length or length 1
LittleEndian(b) ==
    IF Len(b) = 1 THEN Canon(<<b[1]>>)
    ELSE Canon([i \in 1..(Len(b) \div 2) |-> b[2 * i - 1] + 256 * b[2 * i]])

\* i < v for a machine-size i (i < 65536) and a parsed integer v
LessThan(i, v) ==
    \/ Len(v) >= 2
    \/ Len(v) = 1 /\ i < v[1]

Failure(cur) == [ok |-> FALSE, val |-> NoneVal, cur |-> cur]

Success(val, cur) == [ok |-> TRUE, val |-> val, cur |-> cur]

\* a Switch without a default: an unlisted key raises
SwitchCase_NoDefault(cases, key) ==
    IF key \in DOMAIN cases THEN cases[key] ELSE Error

\* the case a Switch parses with: cases.get(key, default), the default of
\* Switch being Pass
SwitchCase(cases, key) ==
    IF key \in DOMAIN cases THEN cases[key] ELSE Pass

RECURSIVE Parse(_, _, _, _)
RECURSIVE ParseStruct(_, _, _, _, _)
RECURSIVE ParseArray(_, _, _, _, _, _)

\* fields i.. of a Struct, items holding the values parsed so far
ParseStruct(subcons, i, buf, cur, items) ==
    IF i > Len(subcons) THEN Success(ContainerVal(items), cur)
    ELSE LET r == Parse(subcons[i][2], buf, cur, ContainerVal(items))
         IN IF ~r.ok THEN r
            ELSE ParseStruct(subcons, i + 1, buf, r.cur,
                             Append(items, <<subcons[i][1], r.val>>))

RECURSIVE ParseArray_Greedy(_, _, _, _, _, _)
\* an Array that keeps the elements parsed before the data ran out
ParseArray_Greedy(con, i, buf, cur, ctx, acc) ==
    LET more == IF con.fixed THEN i < con.count
                ELSE LessThan(i, Get(ctx, con.count))
    IN IF ~more THEN Success(acc, cur)
       ELSE LET r == Parse(con.sub, buf, cur, ctx)
            IN IF ~r.ok THEN Success(acc, cur)
               ELSE ParseArray_Greedy(con, i + 1, buf, r.cur, ctx, Append(acc, r.val))

\* elements i.. of an Array (i counts the elements parsed so far)
ParseArray(con, i, buf, cur, ctx, acc) ==
    LET more == IF con.fixed THEN i < con.count
                ELSE LessThan(i, Get(ctx, con.count))
    IN IF ~more THEN Success(acc, cur)
       ELSE LET r == Parse(con.sub, buf, cur, ctx)
            IN IF ~r.ok THEN r
               ELSE ParseArray(con, i + 1, buf, r.cur, ctx, Append(acc, r.val))

\* con.parse at offset cur of buf (cur bytes already consumed); a read past
\* the end of buf is construct's StreamError
Parse(con, buf, cur, ctx) ==
    CASE con.k = "Int" ->
           IF cur + con.n > Len(buf) THEN Failure(cur)
           ELSE Success(LittleEndian(SubSeq(buf, cur + 1, cur + con.n)), cur + con.n)
      [] con.k = "Bytes" ->
           IF cur + con.n > Len(buf) THEN Failure(cur)
           ELSE Success(BytesVal(SubSeq(buf, cur + 1, cur + con.n)), cur + con.n)
      [] con.k = "Pass" -> Success(NoneVal, cur)
      [] con.k = "Error" -> Failure(cur)
      [] con.k = "Struct" -> ParseStruct(con.subcons, 1, buf, cur, <<>>)
      [] con.k = "Switch" ->
           Parse(SwitchCase(con.cases, Get(ctx, con.key)), buf, cur, ctx)
      [] con.k = "Array" -> ParseArray(con, 0, buf, cur, ctx, <<>>)

RECURSIVE Sizeof(_)
RECURSIVE SizeofStruct(_, _)

SizeofStruct(subcons, i) ==
    IF i > Len(subcons) THEN 0
    ELSE Sizeof(subcons[i][2]) + SizeofStruct(subcons, i + 1)

\* con.sizeof() of a layout of fixed width
Sizeof(con) ==
    CASE con.k = "Int" -> con.n
      [] con.k = "Bytes" -> con.n
      [] con.k = "Pass" -> 0
      [] con.k = "Struct" -> SizeofStruct(con.subcons, 1)
      [] con.k = "Array" -> con.count * Sizeof(con.sub)

\* Struct + layout: a Struct of the left fields followed by the right layout
StructPlus(s, other) == Struct(s.subcons \o <<<<"", other>>>>)

----------------------------------------------------------------------------
(* The layouts of state.py.                                                *)

PUBLIC_KEY_LAYOUT == Bytes(32)

\* width of the lockup record of stake.state (unix_timestamp, epoch,
\* custodian), which this module treats as an opaque block
LockupWidth == 48

LOCKUP_LAYOUT == Bytes(LockupWidth)

FEE_LAYOUT ==
    Struct(<<
        <<"denominator", Int64ul>>,
        <<"numerator", Int64ul>>
    >>)

\* the payload parsed under tag 0 as under tag 1
OptionCases_PayloadAlways(layout) == (Num(0) :> layout) @@ (Num(1) :> layout)

\* {0: Pass, 1: layout}
OptionCases(layout) == (Num(0) :> Pass) @@ (Num(1) :> layout)

STAKE_POOL_LAYOUT ==
    Struct(<<
        <<"account_type", Int8ul>>,
        <<"manager", PUBLIC_KEY_LAYOUT>>,
        <<"staker", PUBLIC_KEY_LAYOUT>>,
        <<"stake_deposit_authority", PUBLIC_KEY_LAYOUT>>,
        <<"stake_withdraw_bump_seed", Int8ul>>,
        <<"validator_list", PUBLIC_KEY_LAYOUT>>,
        <<"reserve_stake", PUBLIC_KEY_LAYOUT>>,
        <<"pool_mint", PUBLIC_KEY_LAYOUT>>,
        <<"manager_fee_account", PUBLIC_KEY_LAYOUT>>,
        <<"token_program_id", PUBLIC_KEY_LAYOUT>>,
        <<"total_lamports", Int64ul>>,
        <<"pool_token_supply", Int64ul>>,
        <<"last_update_epoch", Int64ul>>,
        <<"lockup", LOCKUP_LAYOUT>>,
        <<"epoch_fee", FEE_LAYOUT>>,
        <<"next_epoch_fee_option", Int8ul>>,
        <<"next_epoch_fee", FEE_LAYOUT>>,
        <<"preferred_deposit_validator_option", Int8ul>>,
        <<"preferred_deposit_validator", PUBLIC_KEY_LAYOUT>>,
        <<"preferred_withdraw_validator_option", Int8ul>>,
        <<"preferred_withdraw_validator", PUBLIC_KEY_LAYOUT>>,
        <<"stake_deposit_fee", FEE_LAYOUT>>,
        <<"stake_withdrawal_fee", FEE_LAYOUT>>,
        <<"next_stake_withdrawal_fee_option", Int8ul>>,
        <<"next_stake_withdrawal_fee", FEE_LAYOUT>>,
        <<"stake_referral_fee", Int8ul>>,
        <<"sol_deposit_authority_option", Int8ul>>,
        <<"sol_deposit_authority", PUBLIC_KEY_LAYOUT>>,
        <<"sol_deposit_fee", FEE_LAYOUT>>,
        <<"sol_referral_fee", Int8ul>>,
        <<"sol_withdraw_authority_option", Int8ul>>,
        <<"sol_withdraw_authority", PUBLIC_KEY_LAYOUT>>,
        <<"sol_withdrawal_fee", FEE_LAYOUT>>,
        <<"next_sol_withdrawal_fee_option", Int8ul>>,
        <<"next_sol_withdrawal_fee", FEE_LAYOUT>>,
        <<"last_epoch_pool_token_supply", Int64ul>>,
        <<"last_epoch_total_lamports", Int64ul>>
    >>)

\* the fields of DECODE_STAKE_POOL_LAYOUT, in order
DecodeStakePoolFields ==
    <<
        <<"account_type", Int8ul>>,
        <<"manager", PUBLIC_KEY_LAYOUT>>,
        <<"staker", PUBLIC_KEY_LAYOUT>>,
        <<"stake_deposit_authority", PUBLIC_KEY_LAYOUT>>,
        <<"stake_withdraw_bump_seed", Int8ul>>,
        <<"validator_list", PUBLIC_KEY_LAYOUT>>,
        <<"reserve_stake", PUBLIC_KEY_LAYOUT>>,
        <<"pool_mint", PUBLIC_KEY_LAYOUT>>,
        <<"manager_fee_account", PUBLIC_KEY_LAYOUT>>,
        <<"token_program_id", PUBLIC_KEY_LAYOUT>>,
        <<"total_lamports", Int64ul>>,
        <<"pool_token_supply", Int64ul>>,
        <<"last_update_epoch", Int64ul>>,
        <<"lockup", LOCKUP_LAYOUT>>,
        <<"epoch_fee", FEE_LAYOUT>>,
        <<"next_epoch_fee_option", Int8ul>>,
        <<"next_epoch_fee",
          Switch("next_epoch_fee_option", OptionCases(FEE_LAYOUT))>>,
        <<"preferred_deposit_validator_option", Int8ul>>,
        <<"preferred_deposit_validator",
          Switch("preferred_deposit_validator_option", OptionCases(PUBLIC_KEY_LAYOUT))>>,
        <<"preferred_withdraw_validator_option", Int8ul>>,
        <<"preferred_withdraw_validator",
          Switch("preferred_withdraw_validator_option", OptionCases(PUBLIC_KEY_LAYOUT))>>,
        <<"stake_deposit_fee", FEE_LAYOUT>>,
        <<"stake_withdrawal_fee", FEE_LAYOUT>>,
        <<"next_stake_withdrawal_fee_option", Int8ul>>,
        <<"next_stake_withdrawal_fee",
          Switch("next_stake_withdrawal_fee_option", OptionCases(FEE_LAYOUT))>>,
        <<"stake_referral_fee", Int8ul>>,
        <<"sol_deposit_authority_option", Int8ul>>,
        <<"sol_deposit_authority",
          Switch("sol_deposit_authority_option", OptionCases(PUBLIC_KEY_LAYOUT))>>,
        <<"sol_deposit_fee", FEE_LAYOUT>>,
        <<"sol_referral_fee", Int8ul>>,
        <<"sol_withdraw_authority_option", Int8ul>>,
        <<"sol_withdraw_authority",
          Switch("sol_withdraw_authority_option", OptionCases(PUBLIC_KEY_LAYOUT))>>,
        <<"sol_withdrawal_fee", FEE_LAYOUT>>,
        <<"next_sol_withdrawal_fee_option", Int8ul>>,
        <<"next_sol_withdrawal_fee",
          Switch("next_sol_withdrawal_fee_option", OptionCases(FEE_LAYOUT))>>,
        <<"last_epoch_pool_token_supply", Int64ul>>,
        <<"last_epoch_total_lamports", Int64ul>>
    >>

\* the last counter declared four bytes wide
DECODE_STAKE_POOL_LAYOUT_ShortLastField ==
    Struct(SubSeq(DecodeStakePoolFields, 1, Len(DecodeStakePoolFields) - 1)
           \o << <<"last_epoch_total_lamports", Int32ul>> >>)

DECODE_STAKE_POOL_LAYOUT == Struct(DecodeStakePoolFields)

VALIDATOR_INFO_LAYOUT ==
    Struct(<<
        <<"active_stake_lamports", Int64ul>>,
        <<"transient_stake_lamports", Int64ul>>,
        <<"last_update_epoch", Int64ul>>,
        <<"transient_seed_suffix", Int64ul>>,
        <<"unused", Int32ul>>,
        <<"validator_seed_suffix", Int32ul>>,
        <<"status", Int8ul>>,
        <<"vote_account_address", PUBLIC_KEY_LAYOUT>>
    >>)

VALIDATOR_LIST_LAYOUT ==
    Struct(<<
        <<"account_type", Int8ul>>,
        <<"max_validators", Int32ul>>,
        <<"validators_len", Int32ul>>
    >>)

\* the entries counted by max_validators
DECODE_VALIDATOR_LIST_LAYOUT_ByCapacity ==
    Struct(<<
        <<"account_type", Int8ul>>,
        <<"max_validators", Int32ul>>,
        <<"validators_len", Int32ul>>,
        <<"validators", ArrayThis("max_validators", VALIDATOR_INFO_LAYOUT)>>
    >>)

DECODE_VALIDATOR_LIST_LAYOUT ==
    Struct(<<
        <<"account_type", Int8ul>>,
        <<"max_validators", Int32ul>>,
        <<"validators_len", Int32ul>>,
        <<"validators", ArrayThis("validators_len", VALIDATOR_INFO_LAYOUT)>>
    >>)

----------------------------------------------------------------------------
(* The classes of state.py.  A call returns [status, value]: status "ok"   *)
(* with the value, or the name of the exception raised.                    *)

Ok(v) == [status |-> "ok", value |-> v]

Raise(e) == [status |-> e, value |-> NoneVal]

Pubkey(b) == [t |-> "Pubkey", v |-> b.v]

\* container.popitem()[1]: only a Container (a dict) has popitem; on bytes
\* the attribute lookup raises AttributeError
PopItemValue(x) ==
    IF x.t = "Container" THEN Ok(x.items[Len(x.items)][2])
    ELSE Raise("AttributeError")

decode_optional_publickey(container) ==
    IF Truthy(container)
    THEN LET item == PopItemValue(container)
         IN IF item.status = "ok" THEN Ok(Pubkey(item.value)) ELSE item
    ELSE Ok(NoneVal)

Fee(numerator, denominator) ==
    [t |-> "Fee", numerator |-> numerator, denominator |-> denominator]

\* numerator and denominator taken from each other's field
Fee_decode_container_Swapped(container) ==
    Fee(Get(container, "denominator"), Get(container, "numerator"))

Fee_decode_container(container) ==
    Fee(Get(container, "numerator"), Get(container, "denominator"))

Fee_decode_optional_container(container) ==
    IF Truthy(container) THEN Fee_decode_container(container) ELSE NoneVal

\* Lockup.decode_container of stake.state, kept opaque
Lockup_decode_container(container) == [t |-> "Lockup", v |-> container.v]

OptionalPubkeyFields ==
    <<"preferred_deposit_validator", "preferred_withdraw_validator",
      "sol_deposit_authority", "sol_withdraw_authority">>

StakePool_decode(buf) ==
    LET p == Parse(DECODE_STAKE_POOL_LAYOUT, buf, 0, ContainerVal(<<>>))
        parsed == p.val
        opt(name) == decode_optional_publickey(Get(parsed, name))
    IN IF ~p.ok THEN Raise("StreamError")
       ELSE IF \E i \in 1..Len(OptionalPubkeyFields) :
                  opt(OptionalPubkeyFields[i]).status # "ok"
       THEN Raise("AttributeError")
       ELSE Ok([
          manager |-> Pubkey(Get(parsed, "manager")),
          staker |-> Pubkey(Get(parsed, "staker")),
          stake_deposit_authority |-> Pubkey(Get(parsed, "stake_deposit_authority")),
          stake_withdraw_bump_seed |-> Get(parsed, "stake_withdraw_bump_seed"),
          validator_list |-> Pubkey(Get(parsed, "validator_list")),
          reserve_stake |-> Pubkey(Get(parsed, "reserve_stake")),
          pool_mint |-> Pubkey(Get(parsed, "pool_mint")),
          manager_fee_account |-> Pubkey(Get(parsed, "manager_fee_account")),
          token_program_id |-> Pubkey(Get(parsed, "token_program_id")),
          total_lamports |-> Get(parsed, "total_lamports"),
          pool_token_supply |-> Get(parsed, "pool_token_supply"),
          last_update_epoch |-> Get(parsed, "last_update_epoch"),
          lockup |-> Lockup_decode_container(Get(parsed, "lockup")),
          epoch_fee |-> Fee_decode_container(Get(parsed, "epoch_fee")),
          next_epoch_fee |-> Fee_decode_optional_container(Get(parsed, "next_epoch_fee")),
          preferred_deposit_validator |-> opt("preferred_deposit_validator").value,
          preferred_withdraw_validator |-> opt("preferred_withdraw_validator").value,
          stake_deposit_fee |-> Fee_decode_container(Get(parsed, "stake_deposit_fee")),
          stake_withdrawal_fee |-> Fee_decode_container(Get(parsed, "stake_withdrawal_fee")),
          next_stake_withdrawal_fee |->
              Fee_decode_optional_container(Get(parsed, "next_stake_withdrawal_fee")),
          stake_referral_fee |-> Get(parsed, "stake_referral_fee"),
          sol_deposit_authority |-> opt("sol_deposit_authority").value,
          sol_deposit_fee |-> Fee_decode_container(Get(parsed, "sol_deposit_fee")),
          sol_referral_fee |-> Get(parsed, "sol_referral_fee"),
          sol_withdraw_authority |-> opt("sol_withdraw_authority").value,
          sol_withdrawal_fee |-> Fee_decode_container(Get(parsed, "sol_withdrawal_fee")),
          next_sol_withdrawal_fee |->
              Fee_decode_optional_container(Get(parsed, "next_sol_withdrawal_fee")),
          last_epoch_pool_token_supply |-> Get(parsed, "last_epoch_pool_token_supply"),
          last_epoch_total_lamports |-> Get(parsed, "last_epoch_total_lamports")
       ])

ValidatorStakeInfo_decode_container(container) ==
    [ active_stake_lamports |-> Get(container, "active_stake_lamports"),
      transient_stake_lamports |-> Get(container, "transient_stake_lamports"),
      last_update_epoch |-> Get(container, "last_update_epoch"),
      transient_seed_suffix |-> Get(container, "transient_seed_suffix"),
      unused |-> Get(container, "unused"),
      validator_seed_suffix |-> Get(container, "validator_seed_suffix"),
      status |-> Get(container, "status"),
      vote_account_address |-> Pubkey(Get(container, "vote_account_address")) ]

\* the size of the entries alone
ValidatorList_calculate_validator_list_size_NoHeader(max_validators) ==
    Sizeof(Array(max_validators, VALIDATOR_INFO_LAYOUT))

ValidatorList_calculate_validator_list_size(max_validators) ==
    Sizeof(StructPlus(VALIDATOR_LIST_LAYOUT, Array(max_validators, VALIDATOR_INFO_LAYOUT)))

\* a decode that refuses data it does not consume to the end
ValidatorList_decode_Exact(buf) ==
    LET p == Parse(DECODE_VALIDATOR_LIST_LAYOUT, buf, 0, ContainerVal(<<>>))
        parsed == p.val
        containers == Get(parsed, "validators")
    IN IF ~p.ok \/ p.cur # Len(buf) THEN Raise("StreamError")
       ELSE Ok([ max_validators |-> Get(parsed, "max_validators"),
                 validators |-> [i \in 1..Len(containers) |->
                                   ValidatorStakeInfo_decode_container(containers[i])] ])

ValidatorList_decode(buf) ==
    LET p == Parse(DECODE_VALIDATOR_LIST_LAYOUT, buf, 0, ContainerVal(<<>>))
        parsed == p.val
        containers == Get(parsed, "validators")
    IN IF ~p.ok THEN Raise("StreamError")
       ELSE Ok([ max_validators |-> Get(parsed, "max_validators"),
                 validators |-> [i \in 1..Len(containers) |->
                                   ValidatorStakeInfo_decode_container(containers[i])] ])

----------------------------------------------------------------------------
(* Account data handed to the decoders.                                    *)

\* fill patterns 0..MaxSeed of the account data
MaxSeed == 1

\* up to MaxCut bytes are missing from the end of the account data
MaxCut == 1

\* up to MaxTrailing bytes follow the account data
MaxTrailing == 1

\* validator entries declared by, and stored in, a validator list
MaxLen == 2

\* capacities 0..MaxCap of a validator list, next to BigCapacity
MaxCap == 2

BigCapacity == 5000

\* a validators_len that needs more than 16 bits
BigLen == 70000

\* presence tags other than 0 and 1
OddTags == {2, 255}

OptionNames ==
    { "next_epoch_fee_option", "preferred_deposit_validator_option",
      "preferred_withdraw_validator_option", "next_stake_withdrawal_fee_option",
      "sol_deposit_authority_option", "sol_withdraw_authority_option",
      "next_sol_withdrawal_fee_option" }

\* every combination of tags 0 and 1, and every single odd tag among tags
\* that are all 0 or all 1
TagChoices ==
    [OptionNames -> {0, 1}] \cup
    { [n \in OptionNames |-> IF n = o THEN t ELSE b] :
        o \in OptionNames, t \in OddTags, b \in {0, 1} }

\* the n little-endian bytes of a natural v
ToBytes(v, n) ==
    LET pow[i \in 0..3] == IF i = 0 THEN 1 ELSE 256 * pow[i - 1]
    IN [i \in 1..n |-> IF i <= 4 THEN (v \div pow[i - 1]) % 256 ELSE 0]

\* byte at offset off of fill pattern seed; pattern 0 is all zero
PatternByte(seed, off) ==
    IF seed = 0 THEN 0 ELSE (off * (2 * seed + 1) + 17 * seed) % 256

PatternBytes(seed, off, n) == [i \in 1..n |-> PatternByte(seed, off + i - 1)]

\* the tag field guarding each optional field
OptionOf ==
    [ next_epoch_fee |-> "next_epoch_fee_option",
      preferred_deposit_validator |-> "preferred_deposit_validator_option",
      preferred_withdraw_validator |-> "preferred_withdraw_validator_option",
      next_stake_withdrawal_fee |-> "next_stake_withdrawal_fee_option",
      sol_deposit_authority |-> "sol_deposit_authority_option",
      sol_withdraw_authority |-> "sol_withdraw_authority_option",
      next_sol_withdrawal_fee |-> "next_sol_withdrawal_fee_option" ]

OptionalNames == DOMAIN OptionOf

RECURSIVE Emit(_, _, _, _, _, _, _)
RECURSIVE EmitStruct(_, _, _, _, _, _, _)

EmitStruct(subcons, i, outer, off, reserved, tags, seed) ==
    IF i > Len(subcons) THEN <<>>
    ELSE LET b == Emit(subcons[i][2], subcons[i][1], outer, off, reserved, tags, seed)
         IN b \o EmitStruct(subcons, i + 1, outer, off + Len(b), reserved, tags, seed)

\* the bytes of field name (of the record outer) written at offset off,
\* following the field list of STAKE_POOL_LAYOUT.  Tags come from tags; in
\* pattern 0 every fee is 3/7, but 3/0 for sol_withdrawal_fee, and every
\* other byte is 0.  reserved: the payload span of an optional field is
\* written whatever its tag; otherwise it is written only under tag 1.
Emit(con, name, outer, off, reserved, tags, seed) ==
    IF name \in OptionalNames /\ ~reserved /\ tags[OptionOf[name]] # 1 THEN <<>>
    ELSE CASE con.k = "Int" ->
                IF name \in OptionNames THEN <<tags[name]>>
                ELSE IF seed = 0 /\ name = "denominator"
                     THEN ToBytes(IF outer = "sol_withdrawal_fee" THEN 0 ELSE 7, con.n)
                ELSE IF seed = 0 /\ name = "numerator" THEN ToBytes(3, con.n)
                ELSE PatternBytes(seed, off, con.n)
           [] con.k = "Bytes" -> PatternBytes(seed, off, con.n)
           [] con.k = "Struct" ->
                EmitStruct(con.subcons, 1, name, off, reserved, tags, seed)

DropLast(b, n) == SubSeq(b, 1, IF Len(b) >= n THEN Len(b) - n ELSE 0)

\* the data of a pool account
PoolData(reserved, tags, seed, cut) ==
    DropLast(Emit(STAKE_POOL_LAYOUT, "", "", 0, reserved, tags, seed), cut)

\* bytes of the header of a validator list and of one of its entries
HeaderWidth == 9

EntryWidth == 73

RECURSIVE Entries(_, _, _)
\* n validator entries written from offset off
Entries(n, off, seed) ==
    IF n = 0 THEN <<>>
    ELSE PatternBytes(seed + 1, off, EntryWidth)
         \o Entries(n - 1, off + EntryWidth, seed)

\* the data of a validator list account that declares capacity cap and
\* len entries and holds stored entries
ListData(cap, len, stored, seed, cut) ==
    DropLast(<<2>> \o ToBytes(cap, 4) \o ToBytes(len, 4)
             \o Entries(stored, HeaderWidth, seed), cut)

Trailing(n) == [i \in 1..n |-> 1]

NoResult == [status |-> "none", value |-> NoneVal]

NoSize == [arg |-> -1, value |-> -1]

----------------------------------------------------------------------------
(* The calls a client makes on one account.                                *)

Init ==
    /\ \/ /\ kind = "pool"
          \* payload spans written under tag 1 only
          /\ \E tags \in TagChoices, seed \in 0..MaxSeed, cut \in 0..MaxCut :
                data = PoolData(FALSE, tags, seed, cut)
       \/ /\ kind = "pool"
          \* every payload span written, as STAKE_POOL_LAYOUT lays them out
          /\ \E tags \in TagChoices, seed \in 0..MaxSeed, cut \in 0..MaxCut :
                data = PoolData(TRUE, tags, seed, cut)
       \/ /\ kind = "list"
          /\ \E cap \in (0..MaxCap) \cup {BigCapacity},
                len \in (0..MaxLen) \cup {BigLen},
                stored \in 0..MaxLen, seed \in 0..MaxSeed, cut \in 0..MaxCut :
                data = ListData(cap, len, stored, seed, cut)
    /\ pc = "ready"
    /\ result = NoResult
    /\ prev = NoResult
    /\ size = NoSize

\* StakePool.decode(data)
StakePoolDecode ==
    /\ pc = "ready"
    /\ kind = "pool"
    /\ result' = StakePool_decode(data)
    /\ pc' = "done"
    /\ UNCHANGED <<data, kind, prev, size>>

\* ValidatorList.decode(data)
ValidatorListDecode ==
    /\ pc = "ready"
    /\ kind = "list"
    /\ result' = ValidatorList_decode(data)
    /\ pc' = "done"
    /\ UNCHANGED <<data, kind, prev, size>>

\* ValidatorList.calculate_validator_list_size(n), called while holding the
\* data of some validator list
CalculateValidatorListSize ==
    /\ pc = "ready"
    /\ kind = "list"
    /\ prev = NoResult
    /\ \E n \in (0..MaxCap) \cup {BigCapacity} :
         size' = [arg |-> n, value |-> ValidatorList_calculate_validator_list_size(n)]
    /\ pc' = "sized"
    /\ UNCHANGED <<data, kind, result, prev>>

\* the same account read again with more bytes behind it
AppendTrailing ==
    /\ pc = "done"
    /\ prev = NoResult
    /\ \E n \in 1..MaxTrailing : data' = data \o Trailing(n)
    /\ prev' = result
    /\ result' = NoResult
    /\ pc' = "ready"
    /\ UNCHANGED <<kind, size>>

Next ==
    \/ StakePoolDecode
    \/ ValidatorListDecode
    \/ CalculateValidatorListSize
    \/ AppendTrailing

Spec == Init /\ [][Next]_vars

----------------------------------------------------------------------------
(* Reading account data directly, field by field, for the properties.      *)

PoolFields == STAKE_POOL_LAYOUT.subcons

NumPoolFields == Len(PoolFields)

FieldIndex(name) == CHOOSE i \in 1..NumPoolFields : PoolFields[i][1] = name

OptionalIndices == {i \in 1..NumPoolFields : PoolFields[i][1] \in OptionalNames}

\* width of the payload of the optional field at index i
PayloadWidth(i) == Sizeof(PoolFields[i][2])

\* offset of field i when every payload span is on the wire
FixedOffset(i) == SizeofStruct(SubSeq(PoolFields, 1, i - 1), 1)

ByteAt(buf, off) == IF off < Len(buf) THEN buf[off + 1] ELSE 0

RECURSIVE WireOffsetsFrom(_, _, _)
\* acc[j]: offset of field j when the payload of an optional field is on
\* the wire only under tag 1; the last element is the offset past the record
WireOffsetsFrom(buf, i, acc) ==
    IF i > NumPoolFields THEN acc
    ELSE LET off == acc[i]
             absent == /\ PoolFields[i][1] \in OptionalNames
                       /\ ByteAt(buf, acc[i - 1]) # 1
             w == IF absent THEN 0 ELSE Sizeof(PoolFields[i][2])
         IN WireOffsetsFrom(buf, i + 1, Append(acc, off + w))

WireOffsets(buf) == WireOffsetsFrom(buf, 1, <<0>>)

\* bytes StakePool.decode needs for the tags that buf holds
WireWidth(buf) == WireOffsets(buf)[NumPoolFields + 1]

\* the value a layout denotes at offset off, read straight from the bytes
RawRead(con, buf, off) ==
    CASE con.k = "Int" -> LittleEndian(SubSeq(buf, off + 1, off + con.n))
      [] con.k = "Bytes" -> BytesVal(SubSeq(buf, off + 1, off + con.n))
      [] con.k = "Struct" ->
           ContainerVal(<< <<"denominator", LittleEndian(SubSeq(buf, off + 1, off + 8))>>,
                           <<"numerator", LittleEndian(SubSeq(buf, off + 9, off + 16))>> >>)

\* the parse of the first i fields of the decode layout
ParsedPrefix(i, buf) ==
    Parse(Struct(SubSeq(DECODE_STAKE_POOL_LAYOUT.subcons, 1, i)), buf, 0, ContainerVal(<<>>))

PoolDone == pc = "done" /\ kind = "pool"

ListDone == pc = "done" /\ kind = "list"

----------------------------------------------------------------------------
----------------------------------------------------------------------------
\* the fields of the pool record that StakePool carries
ResultIndices ==
    {i \in 1..NumPoolFields :
        PoolFields[i][1] \notin OptionNames \cup {"account_type"}}

\* the value StakePool is to carry for field i when its bytes start at off
FromWire(i, buf, off) ==
    LET con == PoolFields[i][2]
        block == SubSeq(buf, off + 1, off + con.n)
    IN CASE PoolFields[i][1] = "lockup" -> [t |-> "Lockup", v |-> block]
         [] con.k = "Int" /\ PoolFields[i][1] # "lockup" -> LittleEndian(block)
         [] con.k = "Bytes" /\ PoolFields[i][1] # "lockup" -> [t |-> "Pubkey", v |-> block]
         [] con.k = "Struct" ->
              [t |-> "Fee",
               numerator |-> LittleEndian(SubSeq(buf, off + 9, off + 16)),
               denominator |-> LittleEndian(SubSeq(buf, off + 1, off + 8))]

\* tag of the optional field i, offs giving the offset of every field
TagOf(i, buf, offs) == ByteAt(buf, offs[i - 1])

FixedOffsets == [i \in 1..NumPoolFields |-> FixedOffset(i)]

IdentifierIndices == {i \in OptionalIndices : PoolFields[i][2].k = "Bytes"}

FeeIndices == {i \in 1..NumPoolFields : PoolFields[i][2].k = "Struct"}

(* C2 as stated: on a buffer of exactly the fixed layout width whose tags  *)
(* are all 0 or 1, StakePool.decode succeeds and every field equals the    *)
(* value at the field's fixed offset, an optional field being present      *)
(* exactly when its tag is 1.                                              *)
C2_FixedOffsetRoundTrip ==
    ( /\ PoolDone
      /\ Len(data) = Sizeof(STAKE_POOL_LAYOUT)
      /\ \A i \in OptionalIndices : TagOf(i, data, FixedOffsets) \in {0, 1} )
    => /\ result.status = "ok"
       /\ \A i \in ResultIndices :
            result.value[PoolFields[i][1]] =
              IF i \in OptionalIndices /\ TagOf(i, data, FixedOffsets) # 1
              THEN NoneVal
              ELSE FromWire(i, data, FixedOffsets[i])

C4_PresentIdentifierDecoded ==
    PoolDone =>
      \A i \in IdentifierIndices :
        LET offs == WireOffsets(data)
        IN (TagOf(i, data, offs) = 1 /\ Len(data) >= WireWidth(data))
           => /\ result.status = "ok"
              /\ result.value[PoolFields[i][1]] = FromWire(i, data, offs[i])

(* C5: a fee region is read as denominator (first 8 bytes, little-endian)  *)
(* then numerator (next 8 bytes), the Fee carrying numerator = the second  *)
(* word and denominator = the first; an optional fee tagged 1 whose        *)
(* payload is the bytes of 7 then the bytes of 3 is Fee(3, 7); and no fee  *)
(* value makes the decode fail.                                            *)
C5_FeeWireOrder ==
    PoolDone =>
      LET offs == WireOffsets(data)
          present(i) == i \notin OptionalIndices \/ TagOf(i, data, offs) = 1
      IN /\ result.status = "ok" =>
              \A i \in FeeIndices :
                present(i) =>
                  /\ result.value[PoolFields[i][1]] = FromWire(i, data, offs[i])
                  /\ SubSeq(data, offs[i] + 1, offs[i] + 16) = ToBytes(7, 8) \o ToBytes(3, 8)
                       => result.value[PoolFields[i][1]] = Fee(Num(3), Num(7))
         /\ ( /\ Len(data) >= WireWidth(data)
              /\ \A i \in IdentifierIndices : TagOf(i, data, offs) # 1 )
            => result.status = "ok"

\* next_epoch_fee tagged 1 over the bytes of 7 then 3 decoded as Fee(3, 7),
\* next to a fee whose denominator is 0
C5_Witness ==
    /\ PoolDone
    /\ result.status = "ok"
    /\ LET offs == WireOffsets(data)
           i == FieldIndex("next_epoch_fee")
       IN /\ TagOf(i, data, offs) = 1
          /\ SubSeq(data, offs[i] + 1, offs[i] + 16) = ToBytes(7, 8) \o ToBytes(3, 8)
    /\ result.value.next_epoch_fee = Fee(Num(3), Num(7))
    /\ result.value.sol_withdrawal_fee = Fee(Num(3), Num(0))

(* C6: under every tag other than 1 (0 and 2..255) the optional field is   *)
(* absent, and no tag value makes StakePool.decode fail: a decode fails    *)
(* only on a buffer shorter than its tags call for or on an identifier     *)
(* tagged 1.                                                               *)
C6_AnyOtherTagIsAbsent ==
    PoolDone =>
      LET offs == WireOffsets(data)
      IN /\ result.status = "ok" =>
              \A i \in OptionalIndices :
                TagOf(i, data, offs) # 1 => result.value[PoolFields[i][1]].t = "None"
         /\ ( /\ Len(data) >= WireWidth(data)
              /\ \A i \in IdentifierIndices : TagOf(i, data, offs) # 1 )
            => result.status = "ok"

\* decodes with a fee tagged 255 or with an identifier tagged 2
C6_Witness ==
    /\ PoolDone
    /\ result.status = "ok"
    /\ LET offs == WireOffsets(data)
       IN \/ \E i \in OptionalIndices \ IdentifierIndices : TagOf(i, data, offs) = 255
          \/ \E i \in IdentifierIndices : TagOf(i, data, offs) = 2

----------------------------------------------------------------------------
(* Validator lists.                                                        *)

MaxValidatorsOf(buf) == LittleEndian(SubSeq(buf, 2, 5))

ValidatorsLenOf(buf) == LittleEndian(SubSeq(buf, 6, 9))

\* the natural a parsed integer below 65536 stands for
Small(v) == IF v = <<>> THEN 0 ELSE v[1]

\* TRUE when buf holds the header and the validators_len entries it declares
HoldsDeclaredEntries(buf) ==
    /\ Len(buf) >= HeaderWidth
    /\ Len(ValidatorsLenOf(buf)) <= 1
    /\ Len(buf) >= HeaderWidth + Small(ValidatorsLenOf(buf)) * EntryWidth

\* the i-th entry read straight from its region after the header
EntryFromWire(buf, i) ==
    LET off == HeaderWidth + (i - 1) * EntryWidth
        word(a, n) == LittleEndian(SubSeq(buf, off + a + 1, off + a + n))
    IN [ active_stake_lamports |-> word(0, 8),
         transient_stake_lamports |-> word(8, 8),
         last_update_epoch |-> word(16, 8),
         transient_seed_suffix |-> word(24, 8),
         unused |-> word(32, 4),
         validator_seed_suffix |-> word(36, 4),
         status |-> word(40, 1),
         vote_account_address |->
             [t |-> "Pubkey", v |-> SubSeq(buf, off + 42, off + 73)] ]

(* C7: when ValidatorList.decode succeeds, the number of validators equals *)
(* the validators_len read from bytes 5..8, the i-th validator is decoded  *)
(* from the i-th entry region after the 9-byte header, max_validators is   *)
(* the u32 at bytes 1..4, and a validators_len above max_validators is not *)
(* rejected.                                                               *)
C7_ListFollowsValidatorsLen ==
    ListDone =>
      /\ result.status = "ok" =>
           /\ Canon(<<Len(result.value.validators)>>) = ValidatorsLenOf(data)
           /\ result.value.max_validators = MaxValidatorsOf(data)
           /\ \A i \in 1..Len(result.value.validators) :
                result.value.validators[i] = EntryFromWire(data, i)
      /\ HoldsDeclaredEntries(data) => result.status = "ok"

\* two entries decoded from a list that declares a capacity of one
C7_Witness ==
    /\ ListDone
    /\ result.status = "ok"
    /\ Len(result.value.validators) = 2
    /\ result.value.validators[1] # result.value.validators[2]
    /\ result.value.max_validators = Num(1)

(* C8 as stated: calculate_validator_list_size(max_validators) is          *)
(* 9 + max_validators * 37.                                                *)
C8_SizeIs37PerEntry ==
    pc = "sized" => size.value = 9 + size.arg * 37

(* C8 amended: calculate_validator_list_size(max_validators) is            *)
(* 9 + max_validators * 73, the entry layout being 73 bytes wide           *)
(* (4 * 8 + 2 * 4 + 1 + 32), whatever validators_len the data at hand      *)
(* declares.                                                               *)
C8_SizeIs73PerEntry ==
    pc = "sized" => size.value = HeaderWidth + size.arg * EntryWidth

\* the size for 5000 validators computed next to a list that declares 2
C8_Witness ==
    /\ pc = "sized"
    /\ size.arg = BigCapacity
    /\ size.value = 365009
    /\ Len(data) >= HeaderWidth
    /\ ValidatorsLenOf(data) = Num(2)

(* C9: ValidatorList.decode fails with the truncated-input error, and      *)
(* returns no list, on every buffer shorter than the 9-byte header plus    *)
(* validators_len entries, validators_len being read from the buffer.      *)
C9_ShortListFails ==
    (ListDone /\ ~HoldsDeclaredEntries(data)) => result = Raise("StreamError")

\* a list that declares two entries and holds one
C9_Witness ==
    /\ ListDone
    /\ Len(data) = HeaderWidth + EntryWidth
    /\ ValidatorsLenOf(data) = Num(2)
    /\ result.status = "StreamError"

(* C10: a decode that succeeded on a buffer succeeds on that buffer        *)
(* followed by more bytes, with an equal value; a list buffer sized for    *)
(* its capacity, declaring no more entries than the capacity, decodes to   *)
(* exactly validators_len entries.                                         *)
C10_TrailingBytesIgnored ==
    /\ (pc = "done" /\ prev.status = "ok") => result = prev
    /\ ( /\ ListDone
         /\ Len(data) >= HeaderWidth
         /\ Len(MaxValidatorsOf(data)) <= 1
         /\ Len(ValidatorsLenOf(data)) <= 1
         /\ Small(ValidatorsLenOf(data)) <= Small(MaxValidatorsOf(data))
         /\ Len(data) = HeaderWidth + Small(MaxValidatorsOf(data)) * EntryWidth )
       => /\ result.status = "ok"
          /\ Len(result.value.validators) = Small(ValidatorsLenOf(data))

\* a list of one entry in a buffer sized for two, decoded again with a
\* byte appended
C10_Witness ==
    /\ ListDone
    /\ prev.status = "ok"
    /\ result.status = "ok"
    /\ Len(result.value.validators) = 1
    /\ Len(data) = HeaderWidth + 2 * EntryWidth + 1

====
